---- MODULE Spec2Model ----
(***************************************************************************)
(* Model of the vacancy record (src/src/vacancy.py), of the JSON-file      *)
(* store (src/src/saver.py), of the list functions (src/src/utils.py) and  *)
(* of the paging loop of the listing client (src/src/api_hh.py).           *)
(*                                                                         *)
(* Python values are encoded as follows.                                   *)
(*   Optional[T]   <<>> is None, <<x>> is the value x                      *)
(*   str           a sequence of one-character strings                     *)
(*   dict          a function whose DOMAIN is the set of keys              *)
(*   the file      [kind, items]; kind says what open()/json.load() finds  *)
(***************************************************************************)
EXTENDS Integers, Sequences, FiniteSets, TLC

\* file: the backing file; before: the file as the last call found it;
\* op, arg: the last call; result, raised: what it returned or raised;
\* wrote: whether it rewrote the file
VARIABLES file, before, op, arg, result, raised, wrote

vars == <<file, before, op, arg, result, raised, wrote>>

(***************************************************************************)
(* Bounds                                                                  *)
(***************************************************************************)
MaxBatch == 2

MaxText == 4

MaxItems == 2

(***************************************************************************)
(* Python helpers                                                          *)
(***************************************************************************)
NoneVal == <<>>

Some(x) == <<x>>

IsNone(o) == o = <<>>

Min(S) == CHOOSE x \in S : \A y \in S : x <= y

\* str.lower over the model's alphabet
Lower(ch) == IF ch = "A" THEN "a" ELSE IF ch = "B" THEN "b" ELSE ch

LowerText(t) == [i \in 1..Len(t) |-> Lower(t[i])]

\* Python's `k in t` for strings
IsSubstring(k, t) == \E i \in 0..(Len(t) - Len(k)) : SubSeq(t, i + 1, i + Len(k)) = k

\* truthiness of an Optional[str]: None and "" are falsy
TruthyText(o) == ~IsNone(o) /\ Len(o[1]) > 0

(***************************************************************************)
(* Vacancy (src/src/vacancy.py)                                            *)
(***************************************************************************)
NoSalary == "Zarplata ne ukazana"

\* a digest of name, a separator and url
GenerateIdWithSeparator(name, url) == name \o <<"|">> \o url

\* hashlib.md5(f"{name}{url}") : the digest is modelled by its preimage, the
\* concatenation, i.e. md5 is taken to be collision free
GenerateId(name, url) == name \o url

\* end of the shortest match of "<.*?>" that starts at text[i] = "<", 0 if none
TagEnd(text, i) ==
    LET closes == {j \in (i + 1)..Len(text) : text[j] = ">"}
    IN  IF closes = {} THEN 0
        ELSE LET j == Min(closes)
             IN  IF \E k \in (i + 1)..(j - 1) : text[k] = "\n" THEN 0 ELSE j

RECURSIVE RemoveFrom(_, _)
RemoveFrom(text, i) ==
    IF i > Len(text) THEN <<>>
    ELSE IF text[i] = "<" /\ TagEnd(text, i) # 0
         THEN RemoveFrom(text, TagEnd(text, i) + 1)
         ELSE <<text[i]>> \o RemoveFrom(text, i + 1)

\* re.sub with count=1: only the first tag is removed
RemoveFirstTagOnly(text) ==
    LET opens == {i \in 1..Len(text) : text[i] = "<" /\ TagEnd(text, i) # 0}
    IN  IF opens = {} THEN text
        ELSE SubSeq(text, 1, Min(opens) - 1)
             \o SubSeq(text, TagEnd(text, Min(opens)) + 1, Len(text))

RemoveHtmlTags(text) == RemoveFrom(text, 1)

\* _validate_salary that fills a missing bound with 0 instead of the other bound
ValidateSalaryZeroFill(v) ==
    IF IsNone(v.salary_from) /\ IsNone(v.salary_to)
    THEN [v EXCEPT !.salary_from = Some(0), !.salary_to = Some(0),
                   !.currency = Some(NoSalary)]
    ELSE IF IsNone(v.salary_from)
         THEN [v EXCEPT !.salary_from = Some(0)]
         ELSE IF IsNone(v.salary_to)
              THEN [v EXCEPT !.salary_to = Some(0)]
              ELSE v

ValidateSalary(v) ==
    IF IsNone(v.salary_from) /\ IsNone(v.salary_to)
    THEN [v EXCEPT !.salary_from = Some(0), !.salary_to = Some(0),
                   !.currency = Some(NoSalary)]
    ELSE IF IsNone(v.salary_from)
         THEN [v EXCEPT !.salary_from = v.salary_to]
         ELSE IF IsNone(v.salary_to)
              THEN [v EXCEPT !.salary_to = v.salary_from]
              ELSE v

CleanTextFields(v) ==
    [v EXCEPT !.description = IF TruthyText(v.description)
                              THEN Some(RemoveHtmlTags(v.description[1]))
                              ELSE v.description,
              !.requirements = IF TruthyText(v.requirements)
                               THEN Some(RemoveHtmlTags(v.requirements[1]))
                               ELSE v.requirements]

\* __init__ that hashes the description into the id as well
VacancyIdFromAllFields(name, url, salary_from, salary_to, currency, description, requirements, employer) ==
    CleanTextFields(ValidateSalary(
        [id |-> GenerateId(name, url)
                \o (IF IsNone(description) THEN <<>> ELSE description[1]),
         name |-> name, url |-> url,
         salary_from |-> salary_from, salary_to |-> salary_to,
         currency |-> currency, description |-> description,
         requirements |-> requirements, employer |-> employer]))

\* Vacancy.__init__
Vacancy(name, url, salary_from, salary_to, currency, description, requirements, employer) ==
    CleanTextFields(ValidateSalary(
        [id |-> GenerateId(name, url), name |-> name, url |-> url,
         salary_from |-> salary_from, salary_to |-> salary_to,
         currency |-> currency, description |-> description,
         requirements |-> requirements, employer |-> employer]))

\* the salary_from / salary_to properties: `self._salary_from or 0`
SalaryFrom(v) == IF IsNone(v.salary_from) THEN 0 ELSE v.salary_from[1]

SalaryTo(v) == IF IsNone(v.salary_to) THEN 0 ELSE v.salary_to[1]

\* to_dict that stores the url as the id
to_dictIdFromUrl(v) ==
    [id |-> v.url, name |-> v.name, url |-> v.url,
     salary_from |-> v.salary_from, salary_to |-> v.salary_to,
     currency |-> v.currency, description |-> v.description,
     requirements |-> v.requirements, employer |-> v.employer]

to_dict(v) ==
    [id |-> v.id, name |-> v.name, url |-> v.url,
     salary_from |-> v.salary_from, salary_to |-> v.salary_to,
     currency |-> v.currency, description |-> v.description,
     requirements |-> v.requirements, employer |-> v.employer]

\* the keys from_dict subscripts; "id" is not among them
FromDictKeys == {"name", "url", "salary_from", "salary_to", "currency",
                 "description", "requirements", "employer"}

from_dict(data) ==
    Vacancy(data.name, data.url, data.salary_from, data.salary_to,
            data.currency, data.description, data.requirements, data.employer)

\* avg_salary times two: (salary_from + salary_to) / 2.0 is exact in a float,
\* so comparing the doubled integers is comparing the averages
AvgSalary2(v) ==
    IF SalaryFrom(v) = 0 /\ SalaryTo(v) = 0 THEN 0
    ELSE SalaryFrom(v) + SalaryTo(v)

\* __eq__ by identity instead of by salary
VacancyEqById(a, b) == a.id = b.id

\* Vacancy.__eq__, __lt__, __le__, __gt__, __ge__
VacancyEq(a, b) == AvgSalary2(a) = AvgSalary2(b)

VacancyLt(a, b) == AvgSalary2(a) < AvgSalary2(b)

VacancyLe(a, b) == AvgSalary2(a) <= AvgSalary2(b)

VacancyGt(a, b) == AvgSalary2(a) > AvgSalary2(b)

VacancyGe(a, b) == AvgSalary2(a) >= AvgSalary2(b)

(***************************************************************************)
(* Raw items of the listing service: the value under a key is Absent (no   *)
(* such key), Null or Val(x)                                               *)
(***************************************************************************)
Absent == [tag |-> "absent"]

Null == [tag |-> "null"]

Val(x) == [tag |-> "val", val |-> x]

\* dict.get(key, default) as an Optional
DictGet(kv, default) ==
    IF kv.tag = "absent" THEN default
    ELSE IF kv.tag = "null" THEN NoneVal ELSE Some(kv.val)

\* truthiness of a dict: it has a key
DictTruthy(d) == \E k \in DOMAIN d : d[k].tag # "absent"

\* the defaults of cast_to_object_list
NotSpecified == "Ne ukazano"

NotSpecifiedName == <<"N", "e", " ", "u", "k", "a", "z", "a", "n", "o">>

EmptySnippet == [responsibility |-> Absent, requirement |-> Absent]

EmptyEmployer == [name |-> Absent]

\* the snippet text without the `or None`: an empty string stays
TextOrNoneKeepEmpty(kv) == DictGet(kv, Some(<<>>))

\* `snippet.get(key, "") or None`
TextOrNone(kv) ==
    LET t == DictGet(kv, Some(<<>>))
    IN  IF TruthyText(t) THEN t ELSE NoneVal

\* the loop body with no default for the employer name
CastItemEmployerNone(item) ==
    LET salary == DictGet(item.salary, NoneVal)
        hasSalary == ~IsNone(salary) /\ DictTruthy(salary[1])
        salary_from == IF hasSalary THEN DictGet(salary[1].from, NoneVal) ELSE NoneVal
        salary_to == IF hasSalary THEN DictGet(salary[1].to, NoneVal) ELSE NoneVal
        currency == IF hasSalary THEN DictGet(salary[1].currency, NoneVal) ELSE NoneVal
        snippet == DictGet(item.snippet, Some(EmptySnippet))
        employer == DictGet(item.employer, Some(EmptyEmployer))
    IN  IF IsNone(snippet) THEN [raised |-> "AttributeError", vacancy |-> <<>>]
        ELSE IF IsNone(employer) THEN [raised |-> "AttributeError", vacancy |-> <<>>]
        ELSE [raised |-> "none",
              vacancy |-> Some(Vacancy(
                  DictGet(item.name, Some(NotSpecifiedName))[1],
                  DictGet(item.alternate_url, Some(<<>>))[1],
                  salary_from, salary_to, currency,
                  TextOrNone(snippet[1].responsibility),
                  TextOrNone(snippet[1].requirement),
                  DictGet(employer[1].name, NoneVal)))]

\* one pass of the loop of cast_to_object_list
CastItem(item) ==
    LET salary == DictGet(item.salary, NoneVal)
        hasSalary == ~IsNone(salary) /\ DictTruthy(salary[1])
        salary_from == IF hasSalary THEN DictGet(salary[1].from, NoneVal) ELSE NoneVal
        salary_to == IF hasSalary THEN DictGet(salary[1].to, NoneVal) ELSE NoneVal
        currency == IF hasSalary THEN DictGet(salary[1].currency, NoneVal) ELSE NoneVal
        snippet == DictGet(item.snippet, Some(EmptySnippet))
        employer == DictGet(item.employer, Some(EmptyEmployer))
    IN  IF IsNone(snippet) THEN [raised |-> "AttributeError", vacancy |-> <<>>]
        ELSE IF IsNone(employer) THEN [raised |-> "AttributeError", vacancy |-> <<>>]
        ELSE [raised |-> "none",
              vacancy |-> Some(Vacancy(
                  DictGet(item.name, Some(NotSpecifiedName))[1],
                  DictGet(item.alternate_url, Some(<<>>))[1],
                  salary_from, salary_to, currency,
                  TextOrNone(snippet[1].responsibility),
                  TextOrNone(snippet[1].requirement),
                  DictGet(employer[1].name, Some(NotSpecified))))]

\* Vacancy.cast_to_object_list: an exception in one item ends the call
RECURSIVE CastToObjectList(_)
CastToObjectList(vacancies_data) ==
    IF vacancies_data = <<>> THEN [raised |-> "none", result |-> <<>>]
    ELSE LET first == CastItem(Head(vacancies_data))
             rest == CastToObjectList(Tail(vacancies_data))
         IN  IF first.raised # "none" THEN [raised |-> first.raised, result |-> <<>>]
             ELSE IF rest.raised # "none" THEN rest
             ELSE [raised |-> "none", result |-> first.vacancy \o rest.result]

(***************************************************************************)
(* The backing file                                                        *)
(***************************************************************************)
MissingFile == [kind |-> "missing", items |-> <<>>]

\* text that json.load rejects with JSONDecodeError
InvalidJsonFile == [kind |-> "invalid", items |-> <<>>]

\* bytes that are not UTF-8: reading raises UnicodeDecodeError
UndecodableFile == [kind |-> "undecodable", items |-> <<>>]

\* a JSON document that is not a list
NonArrayFile == [kind |-> "nonarray", items |-> <<>>]

ArrayFile(items) == [kind |-> "array", items |-> items]

\* a JSON array element that is not an object
ScalarElement == [scalar |-> 1]

IsMap(e) == "scalar" \notin DOMAIN e

\* the exception of e[key], "none" when the subscript succeeds
SubscriptError(e, key) ==
    IF ~IsMap(e) THEN "TypeError"
    ELSE IF key \notin DOMAIN e THEN "KeyError" ELSE "none"

\* _load_vacancies without the except clause and the isinstance test
LoadVacanciesStrict(f) ==
    IF f.kind = "missing" THEN [raised |-> "none", data |-> <<>>]
    ELSE IF f.kind = "undecodable" THEN [raised |-> "UnicodeDecodeError", data |-> <<>>]
    ELSE IF f.kind = "array" THEN [raised |-> "none", data |-> f.items]
    ELSE IF f.kind = "invalid" THEN [raised |-> "JSONDecodeError", data |-> <<>>]
    ELSE [raised |-> "TypeError", data |-> <<>>]

\* JSONSaver._load_vacancies
LoadVacancies(f) ==
    IF f.kind = "missing" THEN [raised |-> "none", data |-> <<>>]
    ELSE IF f.kind = "undecodable" THEN [raised |-> "UnicodeDecodeError", data |-> <<>>]
    ELSE IF f.kind = "array" THEN [raised |-> "none", data |-> f.items]
    ELSE [raised |-> "none", data |-> <<>>]

\* JSONSaver._save_vacancies
SaveVacancies(vacancies) == ArrayFile(vacancies)

Outcome(f, r, w, res) == [file |-> f, raised |-> r, wrote |-> w, result |-> res]

\* any(v["id"] == vacancy.id for v in vacancies): the generator stops at the
\* first element that matches or whose subscript raises
AnyIdEquals(vacancies, id) ==
    LET decisive == {i \in 1..Len(vacancies) :
                        \/ SubscriptError(vacancies[i], "id") # "none"
                        \/ vacancies[i].id = id}
    IN  IF decisive = {} THEN "false"
        ELSE LET e == vacancies[Min(decisive)]
             IN  IF SubscriptError(e, "id") # "none"
                 THEN SubscriptError(e, "id") ELSE "true"

\* add_vacancy without the duplicate check
AddVacancyNoDedup(f, vacancy) ==
    LET ld == LoadVacancies(f)
    IN  IF ld.raised # "none" THEN Outcome(f, ld.raised, FALSE, <<>>)
        ELSE Outcome(SaveVacancies(Append(ld.data, to_dict(vacancy))), "none", TRUE, <<>>)

\* add_vacancy that replaces a stored entry of the same id
AddVacancyOverwrite(f, vacancy) ==
    LET ld == LoadVacancies(f)
        dup == AnyIdEquals(ld.data, vacancy.id)
    IN  IF ld.raised # "none" THEN Outcome(f, ld.raised, FALSE, <<>>)
        ELSE IF dup = "false"
             THEN Outcome(SaveVacancies(Append(ld.data, to_dict(vacancy))),
                          "none", TRUE, <<>>)
             ELSE IF dup = "true"
                  THEN Outcome(SaveVacancies(
                                 [i \in 1..Len(ld.data) |->
                                     IF ld.data[i].id = vacancy.id
                                     THEN to_dict(vacancy) ELSE ld.data[i]]),
                               "none", TRUE, <<>>)
                  ELSE Outcome(f, dup, FALSE, <<>>)

\* add_vacancy that inserts the new entry at the front
AddVacancyPrepend(f, vacancy) ==
    LET ld == LoadVacancies(f)
        dup == AnyIdEquals(ld.data, vacancy.id)
    IN  IF ld.raised # "none" THEN Outcome(f, ld.raised, FALSE, <<>>)
        ELSE IF dup = "false"
             THEN Outcome(SaveVacancies(<<to_dict(vacancy)>> \o ld.data),
                          "none", TRUE, <<>>)
             ELSE IF dup = "true" THEN Outcome(f, "none", FALSE, <<>>)
                  ELSE Outcome(f, dup, FALSE, <<>>)

\* add_vacancy with the save after the `if`: the file is rewritten in every call
AddVacancyAlwaysSaves(f, vacancy) ==
    LET ld == LoadVacancies(f)
        dup == AnyIdEquals(ld.data, vacancy.id)
    IN  IF ld.raised # "none" THEN Outcome(f, ld.raised, FALSE, <<>>)
        ELSE IF dup = "false"
             THEN Outcome(SaveVacancies(Append(ld.data, to_dict(vacancy))),
                          "none", TRUE, <<>>)
             ELSE IF dup = "true" THEN Outcome(SaveVacancies(ld.data), "none", TRUE, <<>>)
                  ELSE Outcome(f, dup, FALSE, <<>>)

\* JSONSaver.add_vacancy
AddVacancy(f, vacancy) ==
    LET ld == LoadVacancies(f)
        dup == AnyIdEquals(ld.data, vacancy.id)
    IN  IF ld.raised # "none" THEN Outcome(f, ld.raised, FALSE, <<>>)
        ELSE IF dup = "false"
             THEN Outcome(SaveVacancies(Append(ld.data, to_dict(vacancy))),
                          "none", TRUE, <<>>)
             ELSE IF dup = "true" THEN Outcome(f, "none", FALSE, <<>>)
                  ELSE Outcome(f, dup, FALSE, <<>>)

\* add_vacancies as one batched write: one load, the duplicate check against
\* the loaded list only, one save
AddVacanciesBatched(f, vacancies) ==
    LET ld == LoadVacancies(f)
        fresh == SelectSeq(vacancies, LAMBDA v : AnyIdEquals(ld.data, v.id) = "false")
    IN  IF ld.raised # "none" THEN Outcome(f, ld.raised, FALSE, <<>>)
        ELSE Outcome(SaveVacancies(ld.data \o [i \in 1..Len(fresh) |-> to_dict(fresh[i])]),
                     "none", TRUE, <<>>)

\* JSONSaver.add_vacancies: add_vacancy for each element, in order; an
\* exception ends the loop and keeps what the earlier calls wrote
RECURSIVE AddVacancies(_, _)
AddVacancies(f, vacancies) ==
    IF vacancies = <<>> THEN Outcome(f, "none", FALSE, <<>>)
    ELSE LET o == AddVacancy(f, Head(vacancies))
         IN  IF o.raised # "none" THEN o
             ELSE LET rest == AddVacancies(o.file, Tail(vacancies))
                  IN  [rest EXCEPT !.wrote = o.wrote \/ rest.wrote]

\* the exception of Vacancy.from_dict(e), "none" when it succeeds
FromDictError(e) ==
    IF ~IsMap(e) THEN "TypeError"
    ELSE IF FromDictKeys \subseteq DOMAIN e THEN "none" ELSE "KeyError"

\* a criteria argument: given = FALSE is None; a key whose field is <<>> is
\* not in the dict
CriteriaKeys == {"keyword", "salary_from", "salary_to", "other"}

NoCriteria ==
    [given |-> FALSE, keyword |-> <<>>, salary_from |-> <<>>,
     salary_to |-> <<>>, other |-> <<>>]

PresentKeys(criteria) == {k \in CriteriaKeys : ~IsNone(criteria[k])}

\* `not criteria`: None or an empty dict
NotCriteria(criteria) == ~criteria.given \/ PresentKeys(criteria) = {}

\* the loop body with the salary_to comparison turned round
KeyMatchesReversedTo(vacancy, key, value) ==
    IF key = "keyword"
    THEN IF Len(value) > 0
         THEN LET keyword == LowerText(value)
                  vacancy_name == LowerText(vacancy.name)
                  vacancy_req == IF TruthyText(vacancy.requirements)
                                 THEN LowerText(vacancy.requirements[1])
                                 ELSE <<>>
              IN  IsSubstring(keyword, vacancy_name) \/ IsSubstring(keyword, vacancy_req)
         ELSE TRUE
    ELSE IF key = "salary_from"
         THEN IF value # 0 THEN ~(SalaryFrom(vacancy) < value) ELSE TRUE
         ELSE IF key = "salary_to"
              THEN IF value # 0 THEN ~(SalaryTo(vacancy) < value) ELSE TRUE
              ELSE TRUE

\* the loop body with the keyword also looked up in the description
KeyMatchesWithDescription(vacancy, key, value) ==
    IF key = "keyword"
    THEN IF Len(value) > 0
         THEN LET keyword == LowerText(value)
                  vacancy_name == LowerText(vacancy.name)
                  vacancy_req == IF TruthyText(vacancy.requirements)
                                 THEN LowerText(vacancy.requirements[1])
                                 ELSE <<>>
                  vacancy_desc == IF TruthyText(vacancy.description)
                                  THEN LowerText(vacancy.description[1])
                                  ELSE <<>>
              IN  \/ IsSubstring(keyword, vacancy_name)
                  \/ IsSubstring(keyword, vacancy_req)
                  \/ IsSubstring(keyword, vacancy_desc)
         ELSE TRUE
    ELSE IF key = "salary_from"
         THEN IF value # 0 THEN ~(SalaryFrom(vacancy) < value) ELSE TRUE
         ELSE IF key = "salary_to"
              THEN IF value # 0 THEN ~(SalaryTo(vacancy) > value) ELSE TRUE
              ELSE TRUE

\* one pass of the loop body over criteria.items(): FALSE when the key
\* sets matches = False
KeyMatches(vacancy, key, value) ==
    IF key = "keyword"
    THEN IF Len(value) > 0
         THEN LET keyword == LowerText(value)
                  vacancy_name == LowerText(vacancy.name)
                  vacancy_req == IF TruthyText(vacancy.requirements)
                                 THEN LowerText(vacancy.requirements[1])
                                 ELSE <<>>
              IN  IsSubstring(keyword, vacancy_name) \/ IsSubstring(keyword, vacancy_req)
         ELSE TRUE
    ELSE IF key = "salary_from"
         THEN IF value # 0 THEN ~(SalaryFrom(vacancy) < value) ELSE TRUE
         ELSE IF key = "salary_to"
              THEN IF value # 0 THEN ~(SalaryTo(vacancy) > value) ELSE TRUE
              ELSE TRUE

\* a record is kept as soon as one key accepts it
MatchesAny(vacancy, criteria) ==
    \E key \in PresentKeys(criteria) : KeyMatches(vacancy, key, criteria[key][1])

Matches(vacancy, criteria) ==
    \A key \in PresentKeys(criteria) : KeyMatches(vacancy, key, criteria[key][1])

\* get_vacancies that writes the loaded list back before it filters
GetVacanciesSaving(f, criteria) ==
    LET ld == LoadVacancies(f)
        bad == {i \in 1..Len(ld.data) : FromDictError(ld.data[i]) # "none"}
        vacancies == [i \in 1..Len(ld.data) |-> from_dict(ld.data[i])]
    IN  IF ld.raised # "none" THEN Outcome(f, ld.raised, FALSE, <<>>)
        ELSE IF bad # {}
             THEN Outcome(f, FromDictError(ld.data[Min(bad)]), FALSE, <<>>)
             ELSE IF NotCriteria(criteria)
                  THEN Outcome(SaveVacancies(ld.data), "none", TRUE, vacancies)
                  ELSE Outcome(SaveVacancies(ld.data), "none", TRUE,
                               SelectSeq(vacancies, LAMBDA v : Matches(v, criteria)))

\* JSONSaver.get_vacancies
GetVacancies(f, criteria) ==
    LET ld == LoadVacancies(f)
        bad == {i \in 1..Len(ld.data) : FromDictError(ld.data[i]) # "none"}
        vacancies == [i \in 1..Len(ld.data) |-> from_dict(ld.data[i])]
    IN  IF ld.raised # "none" THEN Outcome(f, ld.raised, FALSE, <<>>)
        ELSE IF bad # {}
             THEN Outcome(f, FromDictError(ld.data[Min(bad)]), FALSE, <<>>)
             ELSE IF NotCriteria(criteria)
                  THEN Outcome(f, "none", FALSE, vacancies)
                  ELSE Outcome(f, "none", FALSE,
                               SelectSeq(vacancies, LAMBDA v : Matches(v, criteria)))

\* delete_vacancy that compares whole entries instead of ids
DeleteVacancyByRecord(f, vacancy) ==
    LET ld == LoadVacancies(f)
        bad == {i \in 1..Len(ld.data) : SubscriptError(ld.data[i], "id") # "none"}
    IN  IF ld.raised # "none" THEN Outcome(f, ld.raised, FALSE, <<>>)
        ELSE IF bad # {}
             THEN Outcome(f, SubscriptError(ld.data[Min(bad)], "id"), FALSE, <<>>)
             ELSE Outcome(SaveVacancies(SelectSeq(ld.data, LAMBDA v : v # to_dict(vacancy))),
                          "none", TRUE, <<>>)

\* JSONSaver.delete_vacancy
DeleteVacancy(f, vacancy) ==
    LET ld == LoadVacancies(f)
        bad == {i \in 1..Len(ld.data) : SubscriptError(ld.data[i], "id") # "none"}
    IN  IF ld.raised # "none" THEN Outcome(f, ld.raised, FALSE, <<>>)
        ELSE IF bad # {}
             THEN Outcome(f, SubscriptError(ld.data[Min(bad)], "id"), FALSE, <<>>)
             ELSE Outcome(SaveVacancies(SelectSeq(ld.data, LAMBDA v : v.id # vacancy.id)),
                          "none", TRUE, <<>>)

\* clear that loads the file before it empties it
ClearViaLoad(f) ==
    LET ld == LoadVacancies(f)
    IN  IF ld.raised # "none" THEN Outcome(f, ld.raised, FALSE, <<>>)
        ELSE Outcome(SaveVacancies(<<>>), "none", TRUE, <<>>)

\* JSONSaver.clear
Clear(f) == Outcome(SaveVacancies(<<>>), "none", TRUE, <<>>)

(***************************************************************************)
(* Inputs                                                                  *)
(***************************************************************************)
\* (name, url) pairs: the first two have the same concatenation
TitleUrls ==
    { <<<<"A", "b">>, <<"c">>>>, <<<<"A">>, <<"b", "c">>>>,
      <<<<"c">>, <<"A">>>>, <<<<"b">>, <<"b">>>> }

\* the optional constructor arguments
VariantNoSalary ==
    [salary_from |-> NoneVal, salary_to |-> NoneVal, currency |-> Some("RUR"),
     description |-> Some(<<"B">>), requirements |-> NoneVal, employer |-> NoneVal]

VariantFromOnly ==
    [salary_from |-> Some(-2), salary_to |-> NoneVal, currency |-> Some("RUR"),
     description |-> Some(<<"a">>), requirements |-> Some(<<"<", "b", ">", "A">>),
     employer |-> Some("E")]

VariantBoth ==
    [salary_from |-> Some(1), salary_to |-> Some(3), currency |-> Some("USD"),
     description |-> NoneVal, requirements |-> Some(<<"c">>), employer |-> Some("F")]

Variants == {VariantNoSalary, VariantFromOnly, VariantBoth}

Construct(tu, va) ==
    Vacancy(tu[1], tu[2], va.salary_from, va.salary_to, va.currency,
            va.description, va.requirements, va.employer)

Postings == {Construct(tu, va) : tu \in TitleUrls, va \in Variants}

BatchPool == {v \in Postings : v.currency = Some("USD") /\ v.name # <<"b">>}

Batches == UNION {[1..n -> BatchPool] : n \in 0..MaxBatch}

OptionalOf(S) == {NoneVal} \cup {Some(x) : x \in S}

SingleKey(key, values) == {[NoCriteria EXCEPT !.given = TRUE, ![key] = Some(x)] : x \in values}

\* None, every dict over one value per key, and further single-key dicts
CriteriaArgs ==
    {NoCriteria}
    \cup [given : {TRUE}, keyword : OptionalOf({<<"a">>}),
          salary_from : OptionalOf({2}), salary_to : OptionalOf({2}),
          other : OptionalOf({1})]
    \cup SingleKey("keyword", {<<>>, <<"B">>})
    \cup SingleKey("salary_from", {-1, 0})
    \cup SingleKey("salary_to", {-1, 0})

NoArg == [vacancy |-> <<>>, batch |-> <<>>, criteria |-> NoCriteria]

\* files the store did not write: damaged, edited or foreign content
WithoutKey(d, key) == [k \in (DOMAIN d) \ {key} |-> d[k]]

SampleA == to_dict(Construct(<<<<"A", "b">>, <<"c">>>>, VariantBoth))

SampleB == to_dict(Construct(<<<<"c">>, <<"A">>>>, VariantNoSalary))

SampleA2 == to_dict(Construct(<<<<"A">>, <<"b", "c">>>>, VariantFromOnly))

ForeignFiles ==
    { InvalidJsonFile, UndecodableFile, NonArrayFile,
      ArrayFile(<<ScalarElement>>),
      ArrayFile(<<WithoutKey(SampleA, "id")>>),
      ArrayFile(<<SampleA, WithoutKey(SampleB, "id")>>),
      ArrayFile(<<WithoutKey(SampleB, "name"), SampleA>>),
      ArrayFile(<<SampleA, SampleA2>>),
      ArrayFile(<<SampleB, SampleA>>) }

(***************************************************************************)
(* Actions                                                                 *)
(***************************************************************************)
Apply(o, name, a) ==
    /\ file' = o.file
    /\ before' = file
    /\ raised' = o.raised
    /\ wrote' = o.wrote
    /\ result' = o.result
    /\ op' = name
    /\ arg' = a

AddVacancyAction ==
    \E v \in Postings :
        Apply(AddVacancy(file, v), "add", [NoArg EXCEPT !.vacancy = Some(v)])

AddVacanciesAction ==
    \E b \in Batches :
        Apply(AddVacancies(file, b), "addAll", [NoArg EXCEPT !.batch = b])

GetVacanciesAction ==
    \E c \in CriteriaArgs :
        Apply(GetVacancies(file, c), "get", [NoArg EXCEPT !.criteria = c])

DeleteVacancyAction ==
    \E v \in Postings :
        Apply(DeleteVacancy(file, v), "delete", [NoArg EXCEPT !.vacancy = Some(v)])

ClearAction == Apply(Clear(file), "clear", NoArg)

Next ==
    \/ AddVacancyAction
    \/ AddVacanciesAction
    \/ GetVacanciesAction
    \/ DeleteVacancyAction
    \/ ClearAction

InitCall ==
    /\ before = file
    /\ op = "init"
    /\ arg = NoArg
    /\ result = <<>>
    /\ raised = "none"
    /\ wrote = FALSE

\* a store created on a path where no file or an empty collection exists
Init == file \in {MissingFile, ArrayFile(<<>>)} /\ InitCall

Spec == Init /\ [][Next]_vars

\* a store created on a path that holds any file
InitAnyFile == file \in {MissingFile, ArrayFile(<<>>)} \cup ForeignFiles /\ InitCall

SpecAnyFile == InitAnyFile /\ [][Next]_vars

(***************************************************************************)
(* The record on its own: inputs are drawn at the start, one call is made  *)
(* on them, and a constructed record is then taken through to_dict and     *)
(* from_dict                                                               *)
(***************************************************************************)
TextChars == {"<", ">", "\n", "a"}

Texts == UNION {[1..n -> TextChars] : n \in 0..MaxText}

SalaryInputs == {NoneVal, Some(-2), Some(0), Some(1), Some(3)}

ConstructorArgs ==
    [name : {<<"A", "b">>, <<"A">>}, url : {<<"c">>, <<"b", "c">>},
     salary_from : SalaryInputs, salary_to : SalaryInputs,
     currency : {NoneVal, Some("RUR")},
     description : {NoneVal, Some(<<"<", "a", ">", "a">>)},
     requirements : {NoneVal, Some(<<>>)},
     employer : {NoneVal, Some("E")}]
    \cup
    [name : {<<"A">>}, url : {<<"c">>},
     salary_from : {NoneVal}, salary_to : {Some(3)},
     currency : {Some("RUR")},
     description : OptionalOf(Texts),
     requirements : {NoneVal, Some(<<"<", "\n", "<", "a", ">", ">">>)},
     employer : {NoneVal}]
    \cup
    [name : {<<"A">>}, url : {<<"c">>},
     salary_from : {Some(1)}, salary_to : {NoneVal},
     currency : {NoneVal},
     description : {NoneVal},
     requirements : OptionalOf(Texts),
     employer : {Some("E")}]

VacancyOf(a) ==
    Vacancy(a.name, a.url, a.salary_from, a.salary_to, a.currency,
            a.description, a.requirements, a.employer)

ComparePool ==
    {Vacancy(tu[1], tu[2], sf, st, NoneVal, NoneVal, NoneVal, NoneVal) :
        tu \in {<<<<"A">>, <<"c">>>>, <<<<"b">>, <<"b">>>>},
        sf \in SalaryInputs, st \in SalaryInputs}

RawSalaries ==
    { Absent, Null,
      Val([from |-> Absent, to |-> Absent, currency |-> Absent]),
      Val([from |-> Val(1), to |-> Null, currency |-> Val("RUR")]),
      Val([from |-> Val(-2), to |-> Val(3), currency |-> Absent]) }

RawSnippets ==
    { Absent, Null, Val(EmptySnippet),
      Val([responsibility |-> Val(<<>>), requirement |-> Val(<<"a">>)]),
      Val([responsibility |-> Val(<<"<", "a", ">", "a">>), requirement |-> Null]) }

RawEmployers ==
    { Absent, Null, Val(EmptyEmployer), Val([name |-> Null]), Val([name |-> Val("E")]) }

RawItems ==
    [name : {Absent, Val(<<"A">>)}, alternate_url : {Absent, Val(<<"c">>)},
     salary : RawSalaries, snippet : RawSnippets, employer : RawEmployers]

\* the items of the longer batches: complete, bare, and with a null snippet
BatchItems ==
    { [name |-> Val(<<"A">>), alternate_url |-> Val(<<"c">>),
       salary |-> Val([from |-> Val(1), to |-> Null, currency |-> Val("RUR")]),
       snippet |-> Val([responsibility |-> Val(<<>>), requirement |-> Val(<<"a">>)]),
       employer |-> Val([name |-> Val("E")])],
      [name |-> Absent, alternate_url |-> Absent, salary |-> Absent,
       snippet |-> Absent, employer |-> Absent],
      [name |-> Val(<<"A">>), alternate_url |-> Absent, salary |-> Null,
       snippet |-> Null, employer |-> Val(EmptyEmployer)] }

RawBatches ==
    {<<>>} \cup {<<item>> : item \in RawItems}
    \cup UNION {[1..n -> BatchItems] : n \in 2..MaxItems}

VacancyInputs ==
    {[kind |-> "construct", args |-> a] : a \in ConstructorArgs}
    \cup {[kind |-> "compare", a |-> p[1], b |-> p[2]] : p \in ComparePool \X ComparePool}
    \cup {[kind |-> "cast", items |-> b] : b \in RawBatches}

ConstructAction ==
    /\ op = "init"
    /\ arg.kind = "construct"
    /\ op' = "construct"
    /\ result' = VacancyOf(arg.args)
    /\ UNCHANGED <<file, before, arg, raised, wrote>>

\* from_dict of the to_dict of the record just constructed
FromDictAction ==
    /\ op = "construct"
    /\ op' = "from_dict"
    /\ arg' = [kind |-> "from_dict", vacancy |-> result, data |-> to_dict(result)]
    /\ result' = from_dict(to_dict(result))
    /\ UNCHANGED <<file, before, raised, wrote>>

CompareAction ==
    /\ op = "init"
    /\ arg.kind = "compare"
    /\ op' = "compare"
    /\ result' = [eq |-> VacancyEq(arg.a, arg.b), lt |-> VacancyLt(arg.a, arg.b),
                  le |-> VacancyLe(arg.a, arg.b), gt |-> VacancyGt(arg.a, arg.b),
                  ge |-> VacancyGe(arg.a, arg.b)]
    /\ UNCHANGED <<file, before, arg, raised, wrote>>

CastAction ==
    /\ op = "init"
    /\ arg.kind = "cast"
    /\ op' = "cast"
    /\ LET o == CastToObjectList(arg.items)
       IN  result' = o.result /\ raised' = o.raised
    /\ UNCHANGED <<file, before, arg, wrote>>

InitVacancy ==
    /\ file = MissingFile
    /\ before = MissingFile
    /\ op = "init"
    /\ arg \in VacancyInputs
    /\ result = <<>>
    /\ raised = "none"
    /\ wrote = FALSE

NextVacancy ==
    \/ ConstructAction
    \/ FromDictAction
    \/ CompareAction
    \/ CastAction

SpecVacancy == InitVacancy /\ [][NextVacancy]_vars

(***************************************************************************)
(* The list functions of src/src/utils.py, each applied to a list of        *)
(* records drawn at the start; get_top_vacancies is also applied to what    *)
(* sort_vacancies returned.  before is the caller's list as it was passed,  *)
(* arg.vacancies the same list after the call.                              *)
(***************************************************************************)
MaxList == 3

MaxRange == 3

DigitChars == <<"0", "1", "2", "3", "4", "5", "6", "7", "8", "9">>

\* int(s) succeeds: over the model's alphabet, a non-empty run of digits
IsInt(s) == Len(s) > 0 /\ \A i \in 1..Len(s) : \E d \in 1..10 : DigitChars[d] = s[i]

DigitValue(ch) == (CHOOSE d \in 1..10 : DigitChars[d] = ch) - 1

RECURSIVE IntOf(_)
IntOf(s) ==
    IF s = <<>> THEN 0
    ELSE 10 * IntOf(SubSeq(s, 1, Len(s) - 1)) + DigitValue(s[Len(s)])

\* s.split("-")
RECURSIVE SplitDash(_)
SplitDash(s) ==
    LET dashes == {i \in 1..Len(s) : s[i] = "-"}
    IN  IF dashes = {} THEN <<s>>
        ELSE <<SubSeq(s, 1, Min(dashes) - 1)>>
             \o SplitDash(SubSeq(s, Min(dashes) + 1, Len(s)))

\* get_vacancies_by_salary: a ValueError of int() returns the list as passed
GetVacanciesBySalary(vacancies, salary_range) ==
    IF ~TruthyText(salary_range) THEN vacancies
    ELSE LET s == salary_range[1]
             parts == SplitDash(s)
         IN  IF \E i \in 1..Len(s) : s[i] = "-"
             THEN IF Len(parts) = 2
                  THEN IF IsInt(parts[1]) /\ IsInt(parts[2])
                       THEN SelectSeq(vacancies, LAMBDA v :
                                /\ SalaryFrom(v) > 0 /\ SalaryTo(v) > 0
                                /\ SalaryFrom(v) >= IntOf(parts[1])
                                /\ SalaryTo(v) <= IntOf(parts[2]))
                       ELSE vacancies
                  ELSE vacancies
             ELSE IF IsInt(s)
                  THEN SelectSeq(vacancies, LAMBDA v : AvgSalary2(v) >= 2 * IntOf(s))
                  ELSE vacancies

\* sorted(key=avg_salary, reverse=True) is stable: a record goes after the
\* records already placed whose key is not smaller
SortInsert(sorted, v) ==
    LET k == Cardinality({i \in 1..Len(sorted) : AvgSalary2(sorted[i]) >= AvgSalary2(v)})
    IN  SubSeq(sorted, 1, k) \o <<v>> \o SubSeq(sorted, k + 1, Len(sorted))

\* sort_vacancies: a new list
RECURSIVE SortVacancies(_)
SortVacancies(vacancies) ==
    IF vacancies = <<>> THEN <<>>
    ELSE SortInsert(SortVacancies(SubSeq(vacancies, 1, Len(vacancies) - 1)),
                    vacancies[Len(vacancies)])

\* vacancies[-top_n:], the last top_n records
GetTopVacanciesLast(vacancies, top_n) ==
    IF top_n > 0
    THEN SubSeq(vacancies, Len(vacancies) - Min({top_n, Len(vacancies)}) + 1, Len(vacancies))
    ELSE vacancies

\* get_top_vacancies: vacancies[:top_n] stops at the end of the list
GetTopVacancies(vacancies, top_n) ==
    IF top_n > 0 THEN SubSeq(vacancies, 1, Min({top_n, Len(vacancies)})) ELSE vacancies

\* records of the tests' shapes: above, across and below the range 4-4, no
\* salary, a tie with the second, and a negative bound
UtilsPool ==
    { Vacancy(<<"A">>, <<"c">>, Some(5), Some(8), NoneVal, NoneVal, NoneVal, NoneVal),
      Vacancy(<<"b">>, <<"b">>, Some(3), Some(5), NoneVal, NoneVal, NoneVal, NoneVal),
      Vacancy(<<"c">>, <<"A">>, Some(1), Some(2), NoneVal, NoneVal, NoneVal, NoneVal),
      Vacancy(<<"A">>, <<"b">>, NoneVal, NoneVal, NoneVal, NoneVal, NoneVal, NoneVal),
      Vacancy(<<"b">>, <<"c">>, Some(4), NoneVal, NoneVal, NoneVal, NoneVal, NoneVal),
      Vacancy(<<"c">>, <<"c">>, Some(-2), NoneVal, NoneVal, NoneVal, NoneVal, NoneVal) }

VacancyLists == UNION {[1..n -> UtilsPool] : n \in 0..MaxList}

\* the lists that are filtered: the records above, across and inside the
\* range 4-4 and the one without salary
RangeLists ==
    UNION {[1..n -> {v \in UtilsPool : v.name # <<"c">>}] : n \in 0..MaxList}

RangeChars == {"4", "-", "x"}

SalaryRanges == OptionalOf(UNION {[1..n -> RangeChars] : n \in 0..MaxRange})

TopNs == {-1, 0, 1, 2, 5}

UtilsArg(kind, vacancies, salary_range, top_n, sorted) ==
    [kind |-> kind, vacancies |-> vacancies, salary_range |-> salary_range,
     top_n |-> top_n, sorted |-> sorted]

UtilsInputs ==
    {UtilsArg("by_salary", vs, r, 0, FALSE) : vs \in RangeLists, r \in SalaryRanges}
    \cup {UtilsArg("sort", vs, NoneVal, 0, FALSE) : vs \in VacancyLists}
    \cup {UtilsArg("top", vs, NoneVal, n, FALSE) : vs \in VacancyLists, n \in TopNs}

GetVacanciesBySalaryAction ==
    /\ op = "init"
    /\ arg.kind = "by_salary"
    /\ op' = "by_salary"
    /\ result' = GetVacanciesBySalary(arg.vacancies, arg.salary_range)
    /\ UNCHANGED <<file, before, arg, raised, wrote>>

SortVacanciesAction ==
    /\ op = "init"
    /\ arg.kind = "sort"
    /\ op' = "sort"
    /\ result' = SortVacancies(arg.vacancies)
    /\ UNCHANGED <<file, before, arg, raised, wrote>>

GetTopVacanciesAction ==
    /\ op = "init"
    /\ arg.kind = "top"
    /\ op' = "top"
    /\ result' = GetTopVacancies(arg.vacancies, arg.top_n)
    /\ UNCHANGED <<file, before, arg, raised, wrote>>

\* get_top_vacancies(sort_vacancies(vacancies), top_n)
GetTopOfSortedAction ==
    /\ op = "sort"
    /\ \E n \in TopNs :
          /\ arg' = UtilsArg("top", result, NoneVal, n, TRUE)
          /\ result' = GetTopVacancies(result, n)
    /\ before' = result
    /\ op' = "top"
    /\ UNCHANGED <<file, raised, wrote>>

InitUtils ==
    /\ file = MissingFile
    /\ arg \in UtilsInputs
    /\ before = arg.vacancies
    /\ op = "init"
    /\ result = <<>>
    /\ raised = "none"
    /\ wrote = FALSE

NextUtils ==
    \/ GetVacanciesBySalaryAction
    \/ SortVacanciesAction
    \/ GetTopVacanciesAction
    \/ GetTopOfSortedAction

SpecUtils == InitUtils /\ [][NextUtils]_vars

(***************************************************************************)
(* HeadHunterAPI.get_vacancies (src/src/api_hh.py): one step per pass of    *)
(* the loop, the outcome of the HTTP request chosen by the service.         *)
(*   arg     the call: max_pages, the page of the next pass, the pages      *)
(*           requested so far and what _request returned for each           *)
(*   result  all_vacancies, the list returned at the end                    *)
(*   op      "init", "loop" while inside get_vacancies, "returned"          *)
(***************************************************************************)
MaxPages == 3

\* the value of response.json(): a dict with the keys it has, or not a dict
JsonDict(items, pages, other) ==
    [isdict |-> TRUE, items |-> items, pages |-> pages, other |-> other]

NonDictJson == [isdict |-> FALSE, items |-> Absent, pages |-> Absent, other |-> Absent]

\* what session.get, raise_for_status and json() can do
HttpOutcome(kind, body) == [kind |-> kind, body |-> body]

ItemLists == {<<>>, <<"i1">>, <<"i2", "i3">>}

JsonBodies ==
    {NonDictJson}
    \cup {JsonDict(items, pages, other) :
            items \in {Absent} \cup {Val(l) : l \in ItemLists},
            pages \in {Absent} \cup {Val(n) : n \in {0, 1, 2, MaxPages, MaxPages + 2}},
            other \in {Absent, Val(1)}}

HttpOutcomes ==
    {HttpOutcome(k, NonDictJson) : k \in {"network_error", "http_error", "not_200", "bad_json"}}
    \cup {HttpOutcome("ok", b) : b \in JsonBodies}

\* _request: the dict of a 200 response, None for everything else
Request(http) ==
    IF http.kind = "ok" /\ http.body.isdict THEN Some(http.body) ELSE NoneVal

\* `not data`: None or a dict without keys
NotData(data) ==
    IsNone(data) \/ ~DictTruthy([k \in {"items", "pages", "other"} |-> data[1][k]])

\* the last test of the loop with the page count taken as a page number
LastPageOffByOne(page, data) == page >= DictGet(data[1].pages, Some(0))[1]

\* `page >= pages - 1` with pages = data.get("pages", 0)
LastPage(page, data) == page >= DictGet(data[1].pages, Some(0))[1] - 1

ApiIdle == [kind |-> "api", max_pages |-> 0, page |-> 0, requests |-> <<>>, responses |-> <<>>]

\* the pages keyword: not passed (default 1) or an integer
PagesArgs == {NoneVal} \cup {Some(p) : p \in -1..MaxPages}

\* get_vacancies up to the for statement
ApiCallAction ==
    /\ op = "init"
    /\ \E pages \in PagesArgs :
          arg' = [ApiIdle EXCEPT !.max_pages = IF IsNone(pages) THEN 1 ELSE pages[1]]
    /\ result' = <<>>
    /\ op' = "loop"
    /\ UNCHANGED <<file, before, raised, wrote>>

\* one pass of the loop body
ApiPageAction ==
    /\ op = "loop"
    /\ arg.page < arg.max_pages
    /\ \E http \in HttpOutcomes :
          LET data == Request(http)
              logged == [arg EXCEPT !.requests = Append(@, arg.page),
                                    !.responses = Append(@, data)]
          IN  IF NotData(data)
              THEN /\ arg' = logged
                   /\ result' = result
                   /\ op' = "returned"
              ELSE /\ result' = result \o DictGet(data[1].items, Some(<<>>))[1]
                   /\ IF LastPage(arg.page, data)
                      THEN arg' = logged /\ op' = "returned"
                      ELSE arg' = [logged EXCEPT !.page = @ + 1] /\ op' = "loop"
    /\ UNCHANGED <<file, before, raised, wrote>>

\* range(max_pages) is exhausted
ApiReturnAction ==
    /\ op = "loop"
    /\ arg.page >= arg.max_pages
    /\ op' = "returned"
    /\ UNCHANGED <<file, before, arg, result, raised, wrote>>

InitApi ==
    /\ file = MissingFile
    /\ before = MissingFile
    /\ op = "init"
    /\ arg = ApiIdle
    /\ result = <<>>
    /\ raised = "none"
    /\ wrote = FALSE

NextApi ==
    \/ ApiCallAction
    \/ ApiPageAction
    \/ ApiReturnAction

\* every request ends (timeout=10), so a call that can take a step takes it
SpecApi == InitApi /\ [][NextApi]_vars /\ WF_vars(NextApi)

(***************************************************************************)
(* Properties of the store                                                 *)
(***************************************************************************)

\* C1: starting from a missing or empty file, every reachable collection
\* holds at most one record per id.
AtMostOneRecordPerId ==
    \A i, j \in 1..Len(file.items) :
        file.items[i].id = file.items[j].id => i = j

\* an add of an id that is stored, with two more records in the store
AtMostOneRecordPerIdWitness ==
    /\ op = "add"
    /\ Len(before.items) = 3
    /\ \E i \in 1..Len(before.items) : before.items[i].id = arg.vacancy[1].id

\* C2: add(p) when p.id is stored leaves the collection as it was (same
\* entries, same positions) and raises nothing, whatever p's other fields.
AddOfStoredIdChangesNothing ==
    (/\ op = "add"
     /\ \E i \in 1..Len(before.items) : before.items[i].id = arg.vacancy[1].id)
    => (file = before /\ raised = "none")

\* the added record differs from the stored one in every other field
AddOfStoredIdWitness ==
    /\ op = "add"
    /\ \E i \in 1..Len(before.items) :
          LET e == before.items[i]
              p == to_dict(arg.vacancy[1])
          IN  /\ e.id = p.id
              /\ e.salary_from # p.salary_from
              /\ e.salary_to # p.salary_to
              /\ e.currency # p.currency
              /\ e.description # p.description
              /\ e.requirements # p.requirements
              /\ e.employer # p.employer

\* C3: whatever the file holds, get, add, delete and clear raise nothing.
StoreNeverRaises ==
    op \in {"get", "add", "delete", "clear"} => raised = "none"

\* C4: get() without criteria returns every stored record once, in file
\* order, and add, addAll and delete keep the survivors in their order and
\* put new records after them.
GetAllInInsertionOrder ==
    /\ (op = "get" /\ NotCriteria(arg.criteria)) =>
          /\ raised = "none"
          /\ Len(result) = Len(before.items)
          /\ \A i \in 1..Len(result) : to_dict(result[i]) = before.items[i]
    /\ op \in {"add", "addAll", "delete"} =>
          LET old == before.items
              new == file.items
              kept == {i \in 1..Len(old) : \E j \in 1..Len(new) : new[j] = old[i]}
              pos(i) == CHOOSE j \in 1..Len(new) : new[j] = old[i]
          IN  /\ \A i, k \in kept : i < k => pos(i) < pos(k)
              /\ \A j \in 1..Len(new) :
                    (\A i \in 1..Len(old) : old[i] # new[j]) =>
                        \A i \in kept : pos(i) < j
              /\ op \in {"add", "addAll"} => kept = 1..Len(old)

\* a get() that returns three records, the one added last with the
\* concatenation that sorts first
GetAllInInsertionOrderWitness ==
    /\ op = "get"
    /\ arg.criteria = NoCriteria
    /\ Len(result) = 3
    /\ result[3].id = <<"A", "b", "c">>
    /\ result[1].id = <<"c", "A">>

\* C5: delete(p) removes the one stored record with id p.id and keeps the
\* others in order; without such a record the collection is unchanged.
DeleteRemovesExactlyTheId ==
    op = "delete" =>
        LET old == before.items
            hits == {i \in 1..Len(old) : old[i].id = arg.vacancy[1].id}
        IN  /\ raised = "none"
            /\ file.kind = "array"
            /\ IF hits = {} THEN file.items = old
               ELSE \E k \in hits :
                       /\ hits = {k}
                       /\ file.items = SubSeq(old, 1, k - 1) \o SubSeq(old, k + 1, Len(old))

\* the middle one of three records is deleted through a record that has its
\* id and other field values
DeleteRemovesExactlyTheIdWitness ==
    /\ op = "delete"
    /\ Len(before.items) = 3
    /\ before.items[2].id = arg.vacancy[1].id
    /\ before.items[2] # to_dict(arg.vacancy[1])

\* C6: after clear() the file is an empty collection whatever it held, and
\* get() returns nothing until something is added.
ClearLeavesEmptyCollection ==
    /\ op = "clear" => (file = ArrayFile(<<>>) /\ raised = "none")
    /\ (before = ArrayFile(<<>>) /\ op \in {"get", "delete", "clear"}) =>
          /\ file = ArrayFile(<<>>)
          /\ raised = "none"
          /\ result = <<>>

\* clear() on a file that cannot be read
ClearLeavesEmptyCollectionWitness ==
    /\ op = "clear"
    /\ before.kind \in {"undecodable", "invalid", "nonarray"}

\* C7: get leaves the file as it found it, for any criteria and file; on a
\* missing file it returns nothing and the file stays missing.
GetLeavesFileUnchanged ==
    op = "get" =>
        /\ file = before
        /\ ~wrote
        /\ before = MissingFile => (result = <<>> /\ raised = "none")

\* a get with criteria on a missing file
GetLeavesFileUnchangedWitness ==
    /\ op = "get"
    /\ before = MissingFile
    /\ PresentKeys(arg.criteria) # {}

\* C8: get({salary_to: v}) returns exactly the stored records with
\* salary_to <= v, in stored order, for every v.
SalaryToFilterIsExact ==
    (op = "get" /\ PresentKeys(arg.criteria) = {"salary_to"}) =>
        LET all == [i \in 1..Len(before.items) |-> from_dict(before.items[i])]
        IN  result = SelectSeq(all, LAMBDA r : SalaryTo(r) <= arg.criteria.salary_to[1])

\* C9 as stated: a stored record with salary_to = 0 is returned by
\* get({salary_to: v}) for every v.
ZeroSalaryToPassesEveryFilter ==
    (op = "get" /\ PresentKeys(arg.criteria) = {"salary_to"}) =>
        \A i \in 1..Len(before.items) :
            SalaryTo(from_dict(before.items[i])) = 0 =>
                \E j \in 1..Len(result) : result[j] = from_dict(before.items[i])

\* C9: a stored record with salary_to = 0 is returned by get({salary_to: v})
\* for every v >= 0.
ZeroSalaryToPassesNonNegativeFilter ==
    (/\ op = "get"
     /\ PresentKeys(arg.criteria) = {"salary_to"}
     /\ arg.criteria.salary_to[1] >= 0) =>
        \A i \in 1..Len(before.items) :
            SalaryTo(from_dict(before.items[i])) = 0 =>
                \E j \in 1..Len(result) : result[j] = from_dict(before.items[i])

\* a salary_to filter that drops a record and keeps the one with salary_to = 0
ZeroSalaryToWitness ==
    /\ op = "get"
    /\ PresentKeys(arg.criteria) = {"salary_to"}
    /\ arg.criteria.salary_to[1] > 0
    /\ Len(result) < Len(before.items)
    /\ \E j \in 1..Len(result) : SalaryTo(result[j]) = 0

\* C10: get({salary_from: v}) returns exactly the stored records with
\* salary_from >= v, in stored order, for every v.
SalaryFromFilterIsExact ==
    (op = "get" /\ PresentKeys(arg.criteria) = {"salary_from"}) =>
        LET all == [i \in 1..Len(before.items) |-> from_dict(before.items[i])]
        IN  result = SelectSeq(all, LAMBDA r : SalaryFrom(r) >= arg.criteria.salary_from[1])

\* C11: get({keyword: k}) returns exactly the stored records whose lowercased
\* title or lowercased requirements (absent counts as empty) contain the
\* lowercased k; the description is not looked at.
KeywordFilterIsExact ==
    (op = "get" /\ PresentKeys(arg.criteria) = {"keyword"}) =>
        LET k == LowerText(arg.criteria.keyword[1])
            all == [i \in 1..Len(before.items) |-> from_dict(before.items[i])]
            req(r) == IF IsNone(r.requirements) THEN <<>> ELSE r.requirements[1]
            hit(r) == \/ IsSubstring(k, LowerText(r.name))
                      \/ IsSubstring(k, LowerText(req(r)))
        IN  /\ raised = "none"
            /\ result = SelectSeq(all, hit)

\* an upper-case keyword that keeps a record by its title and drops a record
\* that has it only in the description
KeywordFilterWitness ==
    /\ op = "get"
    /\ PresentKeys(arg.criteria) = {"keyword"}
    /\ arg.criteria.keyword[1] = <<"B">>
    /\ Len(result) >= 1
    /\ \E i \in 1..Len(before.items) :
          LET r == from_dict(before.items[i])
          IN  /\ r.description = Some(<<"B">>)
              /\ \A j \in 1..Len(result) : result[j] # r

\* C12: with several of the keys keyword, salary_from, salary_to, get returns
\* the stored records, in stored order, that get returns for every supplied
\* key taken alone.
CriteriaCombineByAnd ==
    (/\ op = "get"
     /\ PresentKeys(arg.criteria) \subseteq {"keyword", "salary_from", "salary_to"}
     /\ Cardinality(PresentKeys(arg.criteria)) >= 2) =>
        LET all == [i \in 1..Len(before.items) |-> from_dict(before.items[i])]
            alone(key) == GetVacancies(before,
                              [NoCriteria EXCEPT !.given = TRUE,
                                                 ![key] = arg.criteria[key]]).result
            inAll(r) == \A key \in PresentKeys(arg.criteria) :
                            \E j \in 1..Len(alone(key)) : alone(key)[j] = r
        IN  result = SelectSeq(all, inAll)

\* two keys that each keep two of three records and together keep one
CriteriaCombineByAndWitness ==
    /\ op = "get"
    /\ PresentKeys(arg.criteria) = {"keyword", "salary_to"}
    /\ Len(before.items) = 3
    /\ Len(result) = 1
    /\ Len(GetVacancies(before, [arg.criteria EXCEPT !.keyword = NoneVal]).result) = 2
    /\ Len(GetVacancies(before, [arg.criteria EXCEPT !.salary_to = NoneVal]).result) = 2

\* C22: add_vacancies(b) leaves the file as add_vacancy of b[1], ..., b[n] in
\* that order leaves it: the stored entries, then the elements of b whose id
\* is neither stored nor earlier in b, in the order of b; the file is written
\* only if there is such an element.
AddAllIsSequenceOfAdds ==
    op = "addAll" =>
        LET b == arg.batch
            old == before.items
            step[k \in 0..Len(b)] ==
                IF k = 0 THEN before ELSE AddVacancy(step[k - 1], b[k]).file
            isNew(k) == /\ \A i \in 1..Len(old) : old[i].id # b[k].id
                        /\ \A j \in 1..(k - 1) : b[j].id # b[k].id
            new[k \in 0..Len(b)] ==
                IF k = 0 THEN <<>>
                ELSE IF isNew(k) THEN Append(new[k - 1], to_dict(b[k])) ELSE new[k - 1]
        IN  /\ raised = "none"
            /\ file = step[Len(b)]
            /\ file.items = old \o new[Len(b)]
            /\ wrote = (new[Len(b)] # <<>>)
            /\ ~wrote => file = before

\* a batch of two different records of one id on a store that holds another
\* record: the first is appended, the second skipped
AddAllIsSequenceOfAddsWitness ==
    /\ op = "addAll"
    /\ Len(arg.batch) = 2
    /\ arg.batch[1].id = arg.batch[2].id
    /\ arg.batch[1] # arg.batch[2]
    /\ Len(before.items) = 1
    /\ file.items = Append(before.items, to_dict(arg.batch[1]))

\* C26 as stated: every add_vacancy call rewrites the file, also when the
\* id is stored already.
EveryAddRewrites ==
    op = "add" => wrote

\* C26: add_vacancy rewrites the file, with the whole list, exactly when it
\* appends the record; when the id is stored it writes nothing.
AddRewritesOnlyWhenAppending ==
    op = "add" =>
        LET stored == \E i \in 1..Len(before.items) :
                          before.items[i].id = arg.vacancy[1].id
        IN  /\ wrote = ~stored
            /\ wrote => file = ArrayFile(Append(before.items, to_dict(arg.vacancy[1])))
            /\ ~wrote => file = before

\* an add of the very record that is stored, and nothing is written
AddRewritesOnlyWhenAppendingWitness ==
    /\ op = "add"
    /\ ~wrote
    /\ Len(before.items) = 2
    /\ before.items[2] = to_dict(arg.vacancy[1])

\* C28: starting from a missing or empty file, every stored entry's id is the
\* id computed from the entry's own name and url; so every record get()
\* returns has the id stored for it, and deleting a record that get() returns
\* removes exactly its entry.
StoredIdIsComputedId ==
    /\ \A i \in 1..Len(file.items) :
          LET e == file.items[i]
              r == from_dict(e)
          IN  /\ e.id = GenerateId(e.name, e.url)
              /\ r.id = e.id
              /\ DeleteVacancy(file, r).file =
                    ArrayFile(SubSeq(file.items, 1, i - 1)
                              \o SubSeq(file.items, i + 1, Len(file.items)))
    /\ (op = "get" /\ NotCriteria(arg.criteria)) =>
          /\ Len(result) = Len(before.items)
          /\ \A i \in 1..Len(result) : result[i].id = before.items[i].id

\* the first of three stored records is deleted through the record that
\* from_dict makes of its entry
StoredIdIsComputedIdWitness ==
    /\ op = "delete"
    /\ Len(before.items) = 3
    /\ arg.vacancy[1] = from_dict(before.items[1])
    /\ file.items = SubSeq(before.items, 2, 3)

IdDependsOnTitleAndUrlOnly ==
    /\ op = "construct" =>
          result.id = Vacancy(arg.args.name, arg.args.url, NoneVal, NoneVal,
                              NoneVal, NoneVal, NoneVal, NoneVal).id
    /\ op = "from_dict" => result.id = arg.vacancy.id

\* a record whose salary was normalized and whose description was stripped
IdDependsOnTitleAndUrlOnlyWitness ==
    /\ op = "construct"
    /\ IsNone(arg.args.salary_to)
    /\ ~IsNone(arg.args.salary_from)
    /\ ~IsNone(arg.args.employer)
    /\ ~IsNone(arg.args.description)
    /\ result.description # arg.args.description

\* C14: the four salary cases of the constructor.
SalaryCases ==
    op = "construct" =>
        LET a == arg.args
        IN  IF IsNone(a.salary_from) /\ IsNone(a.salary_to)
            THEN /\ result.salary_from = Some(0)
                 /\ result.salary_to = Some(0)
                 /\ result.currency = Some(NoSalary)
            ELSE /\ result.currency = a.currency
                 /\ IF IsNone(a.salary_to)
                    THEN result.salary_from = a.salary_from /\ result.salary_to = a.salary_from
                    ELSE IF IsNone(a.salary_from)
                         THEN result.salary_from = a.salary_to /\ result.salary_to = a.salary_to
                         ELSE result.salary_from = a.salary_from /\ result.salary_to = a.salary_to

\* only the upper bound is given, with a currency
SalaryCasesWitness ==
    /\ op = "construct"
    /\ IsNone(arg.args.salary_from)
    /\ arg.args.salary_to = Some(3)
    /\ arg.args.currency = Some("RUR")
    /\ result.salary_from = Some(3)

\* C15: every record made by the constructor, from_dict or
\* cast_to_object_list has salary bounds that are integers >= 0.
SalariesAreNonNegative ==
    LET ok(v) == /\ ~IsNone(v.salary_from) /\ v.salary_from[1] >= 0
                 /\ ~IsNone(v.salary_to) /\ v.salary_to[1] >= 0
    IN  /\ op \in {"construct", "from_dict"} => ok(result)
        /\ op = "cast" => \A i \in 1..Len(result) : ok(result[i])

\* C16: after construction neither description nor requirements holds a
\* "<" with a ">" somewhere after it.
NoTagLeftInText ==
    op = "construct" =>
        LET clean(o) == IsNone(o) \/ ~\E i, j \in 1..Len(o[1]) :
                                        i < j /\ o[1][i] = "<" /\ o[1][j] = ">"
        IN  clean(result.description) /\ clean(result.requirements)

\* C17: from_dict(to_dict(r)) has the fields of r.
RoundTrip ==
    op = "from_dict" =>
        /\ arg.data.id = arg.vacancy.id
        /\ \A k \in FromDictKeys : arg.data[k] = arg.vacancy[k]
        /\ result.id = arg.vacancy.id
        /\ \A k \in FromDictKeys : result[k] = arg.vacancy[k]

\* a record whose text still holds brackets around a line break and whose
\* lower bound was copied from the upper one
RoundTripWitness ==
    /\ op = "from_dict"
    /\ arg.vacancy.description = Some(<<"<", "\n", ">">>)
    /\ arg.vacancy.salary_from = Some(3)
    /\ arg.vacancy.salary_to = Some(3)

\* C18: the five comparisons are those of the averages, whatever the titles
\* and urls, and exactly one of <, ==, > holds.
ComparisonsFollowAverage ==
    op = "compare" =>
        LET sa == SalaryFrom(arg.a) + SalaryTo(arg.a)
            sb == SalaryFrom(arg.b) + SalaryTo(arg.b)
        IN  /\ result.eq = (sa = sb)
            /\ result.lt = (sa < sb)
            /\ result.le = (sa <= sb)
            /\ result.gt = (sa > sb)
            /\ result.ge = (sa >= sb)
            /\ Cardinality({x \in {"lt", "eq", "gt"} : result[x]}) = 1

\* records of different title, url and bounds with the same average
ComparisonsFollowAverageWitness ==
    /\ op = "compare"
    /\ arg.a.id # arg.b.id
    /\ arg.a.salary_from # arg.b.salary_from
    /\ arg.a.salary_from # arg.a.salary_to
    /\ result.eq

\* C19: cast_to_object_list raises nothing and returns one record per item,
\* the i-th from the i-th item.
CastNeverFails ==
    op = "cast" =>
        /\ raised = "none"
        /\ Len(result) = Len(arg.items)
        /\ \A i \in 1..Len(result) : Some(result[i]) = CastItem(arg.items[i]).vacancy

\* C20 as stated: an item without a nested employer name gives a record
\* without employer.
MissingEmployerNameGivesNone ==
    (op = "cast" /\ raised = "none") =>
        \A i \in 1..Len(result) :
            DictGet(arg.items[i].employer, Some(EmptyEmployer))[1].name = Absent
                => IsNone(result[i].employer)

\* C20: an item without a nested employer name gives a record whose
\* employer is the placeholder text.
MissingEmployerNameGivesPlaceholder ==
    (op = "cast" /\ raised = "none") =>
        \A i \in 1..Len(result) :
            DictGet(arg.items[i].employer, Some(EmptyEmployer))[1].name = Absent
                => result[i].employer = Some(NotSpecified)

\* an employer object that has no name key
MissingEmployerNameWitness ==
    /\ op = "cast"
    /\ raised = "none"
    /\ Len(result) = 1
    /\ arg.items[1].employer = Val(EmptyEmployer)

\* C21: whenever cast_to_object_list returns, an item whose snippet sub-field
\* is absent or an empty string gives a record without that text (None, not
\* an empty string), and an item whose salary is null or absent gives a
\* record with salary_from = salary_to = 0.
EmptySnippetAndSalaryDefaults ==
    (op = "cast" /\ raised = "none") =>
        \A i \in 1..Len(result) :
            LET item == arg.items[i]
                snippet == DictGet(item.snippet, Some(EmptySnippet))[1]
                empty(kv) == kv = Absent \/ kv = Val(<<>>)
            IN  /\ empty(snippet.responsibility) => result[i].description = NoneVal
                /\ empty(snippet.requirement) => result[i].requirements = NoneVal
                /\ (item.salary = Absent \/ item.salary = Null) =>
                      (result[i].salary_from = Some(0) /\ result[i].salary_to = Some(0))

\* an item with a null salary and an empty-string responsibility beside a
\* requirement that is kept
EmptySnippetAndSalaryDefaultsWitness ==
    /\ op = "cast"
    /\ raised = "none"
    /\ Len(result) = 1
    /\ arg.items[1].salary = Null
    /\ arg.items[1].snippet = Val([responsibility |-> Val(<<>>), requirement |-> Val(<<"a">>)])
    /\ result[1].requirements = Some(<<"a">>)

(***************************************************************************)
(* Properties of the list functions                                        *)
(***************************************************************************)

\* C23: for a range "lo-hi", get_vacancies_by_salary returns, in the order of
\* the list, exactly the records whose interval [salary_from, salary_to]
\* overlaps [lo, hi].
RangeKeepsOverlapping ==
    (/\ op = "by_salary"
     /\ TruthyText(arg.salary_range)
     /\ Len(SplitDash(arg.salary_range[1])) = 2
     /\ IsInt(SplitDash(arg.salary_range[1])[1])
     /\ IsInt(SplitDash(arg.salary_range[1])[2])) =>
        LET lo == IntOf(SplitDash(arg.salary_range[1])[1])
            hi == IntOf(SplitDash(arg.salary_range[1])[2])
        IN  result = SelectSeq(arg.vacancies,
                               LAMBDA v : SalaryFrom(v) <= hi /\ SalaryTo(v) >= lo)

\* C24: sort_vacancies returns the records of the list rearranged so that the
\* average does not increase, equal averages keep the order of the list,
\* records without salary come last, and the list passed is as it was.
SortIsStableDescending ==
    op = "sort" =>
        LET n == Len(before)
        IN  /\ Len(result) = n
            /\ arg.vacancies = before
            /\ \E pi \in [1..n -> 1..n] :
                  /\ \A p, q \in 1..n : pi[p] = pi[q] => p = q
                  /\ \A p \in 1..n : result[p] = before[pi[p]]
                  /\ \A p, q \in 1..n :
                        (p < q /\ AvgSalary2(result[p]) = AvgSalary2(result[q]))
                            => pi[p] < pi[q]
            /\ \A p, q \in 1..n : p < q => AvgSalary2(result[p]) >= AvgSalary2(result[q])
            /\ \A p, q \in 1..n :
                  (p < q /\ SalaryFrom(result[p]) = 0 /\ SalaryTo(result[p]) = 0)
                      => (SalaryFrom(result[q]) = 0 /\ SalaryTo(result[q]) = 0)

\* C25: get_top_vacancies returns the first min(top_n, len) records in their
\* order when top_n > 0 and the whole list otherwise; on a sorted list no
\* record left out has a higher average than a record returned.
TopIsPrefix ==
    op = "top" =>
        LET vs == arg.vacancies
            n == arg.top_n
        IN  /\ n <= 0 => result = vs
            /\ n > 0 =>
                  /\ Len(result) = Min({n, Len(vs)})
                  /\ \A i \in 1..Len(result) : result[i] = vs[i]
            /\ arg.sorted =>
                  \A i \in 1..Len(result) : \A j \in (Len(result) + 1)..Len(vs) :
                      AvgSalary2(result[i]) >= AvgSalary2(vs[j])

\* the top two of three sorted records of different averages
TopIsPrefixWitness ==
    /\ op = "top"
    /\ arg.sorted
    /\ arg.top_n = 2
    /\ Len(arg.vacancies) = 3
    /\ Len(result) = 2
    /\ AvgSalary2(result[2]) > AvgSalary2(arg.vacancies[3])
    /\ AvgSalary2(result[1]) > AvgSalary2(result[2])

(***************************************************************************)
(* Properties of the listing client                                        *)
(***************************************************************************)

====
